---- MODULE Spec2Model ----
(***************************************************************************)
(* Model of c_src/tree_builder.cpp (class MaxSpanningTree and the driver   *)
(* loop of main).  Arrays are functions on 0..num_nodes-1; a C++ vector    *)
(* path[i] is the sequence element path[i+1].                              *)
(***************************************************************************)
EXTENDS Integers, Sequences, FiniteSets, TLC

\* ---------------------------------------------------------------- bounds
NumNodes == 4
MaxCalls == 3

\* ------------------------------------------------------ program constants
TwilightLimit == 300

\* ----------------------------------------------------------------- state
VARIABLES
    num_nodes, max_seen_id,
    parents, scores, raw_scores, locations, lengths,
    links_processed, links_added, links_rejected,
    visited_a_indices, visited_b_indices,
    visited_a_search_ids, visited_b_search_ids, search_id,
    pc,          \* "idle"; "hung" when a walk never returns; "crashed" or
                 \* "corrupt" after an access outside the arrays
    last,        \* the last call: its arguments, the walk's results and
                 \* what it returned
    history,     \* the <<a, b, score>> of every add_link call, in order
    align        \* c_src/sw_align_core.cpp: the call of align_local_core, its
                 \* arguments, locals and output slots; "none" in at when
                 \* the process is the tree builder

vars == <<num_nodes, max_seen_id, parents, scores, raw_scores, locations,
          lengths, links_processed, links_added, links_rejected,
          visited_a_indices, visited_b_indices, visited_a_search_ids,
          visited_b_search_ids, search_id, pc, last, history, align>>

Nodes == 0 .. (num_nodes - 1)

\* The object as one record, so that the methods are operators on it.
This ==
    [num_nodes |-> num_nodes, max_seen_id |-> max_seen_id,
     parents |-> parents, scores |-> scores, raw_scores |-> raw_scores,
     locations |-> locations, lengths |-> lengths,
     links_processed |-> links_processed, links_added |-> links_added,
     links_rejected |-> links_rejected,
     visited_a_indices |-> visited_a_indices,
     visited_b_indices |-> visited_b_indices,
     visited_a_search_ids |-> visited_a_search_ids,
     visited_b_search_ids |-> visited_b_search_ids,
     search_id |-> search_id]

\* MaxSpanningTree(int n)
MaxSpanningTree(n) ==
    [num_nodes |-> n, max_seen_id |-> 0,
     parents |-> [v \in 0 .. (n - 1) |-> 0],
     scores |-> [v \in 0 .. (n - 1) |-> -1],
     raw_scores |-> [v \in 0 .. (n - 1) |-> -1],
     locations |-> [v \in 0 .. (n - 1) |-> -1],
     lengths |-> [v \in 0 .. (n - 1) |-> -1],
     links_processed |-> 0, links_added |-> 0, links_rejected |-> 0,
     visited_a_indices |-> [v \in 0 .. (n - 1) |-> -1],
     visited_b_indices |-> [v \in 0 .. (n - 1) |-> -1],
     visited_a_search_ids |-> [v \in 0 .. (n - 1) |-> 0],
     visited_b_search_ids |-> [v \in 0 .. (n - 1) |-> 0],
     search_id |-> 0]

\* set_link that stores score in the raw_score slot as well.
set_link_RawIsScore(t, node_id, parent, score, raw_score, location, length) ==
    LET m1 == IF node_id > t.max_seen_id THEN node_id ELSE t.max_seen_id
        m2 == IF parent > m1 THEN parent ELSE m1
    IN  [t EXCEPT !.parents[node_id] = parent,
                  !.scores[node_id] = score,
                  !.raw_scores[node_id] = score,
                  !.locations[node_id] = location,
                  !.lengths[node_id] = length,
                  !.max_seen_id = m2]

\* set_link that sets max_seen_id to the larger of its two ids, whatever it
\* was.
set_link_ForgetsMax(t, node_id, parent, score, raw_score, location, length) ==
    [t EXCEPT !.parents[node_id] = parent,
              !.scores[node_id] = score,
              !.raw_scores[node_id] = raw_score,
              !.locations[node_id] = location,
              !.lengths[node_id] = length,
              !.max_seen_id = IF parent > node_id THEN parent ELSE node_id]

\* set_link(node_id, parent, score, raw_score, location, length)
set_link(t, node_id, parent, score, raw_score, location, length) ==
    LET m1 == IF node_id > t.max_seen_id THEN node_id ELSE t.max_seen_id
        m2 == IF parent > m1 THEN parent ELSE m1
    IN  [t EXCEPT !.parents[node_id] = parent,
                  !.scores[node_id] = score,
                  !.raw_scores[node_id] = raw_score,
                  !.locations[node_id] = location,
                  !.lengths[node_id] = length,
                  !.max_seen_id = m2]

\* ------------------------------------------------------ find_meeting_point
\* The walk's locals: w.status is "run" while the loop turns, "met" for
\* return true, "nomeet" for return false.

\* WalkInit without search_id++: the stamps of the search before count as
\* stamps of this one.
WalkInit_SameSearch(t, node_a, node_b) ==
    [t |-> t,
     current_a |-> node_a, current_b |-> node_b,
     a_active |-> TRUE, b_active |-> TRUE,
     path_a |-> <<>>, path_b |-> <<>>,
     meeting_node |-> -1, status |-> "run"]

\* Lines 65-72.
WalkInit(t, node_a, node_b) ==
    [t |-> [t EXCEPT !.search_id = t.search_id + 1],
     current_a |-> node_a, current_b |-> node_b,
     a_active |-> TRUE, b_active |-> TRUE,
     path_a |-> <<>>, path_b |-> <<>>,
     meeting_node |-> -1, status |-> "run"]

\* Trim without the resize: the other side's path keeps the nodes above the
\* meeting node.
Trim_NoResize(path, meeting_index) == path

\* path.resize(meeting_index) guarded by the unsigned comparison
\* meeting_index < path.size()
Trim(path, meeting_index) ==
    IF meeting_index >= 0 /\ meeting_index < Len(path)
    THEN SubSeq(path, 1, meeting_index)
    ELSE path

\* WalkSideA that deactivates at node 0 before stamping it.
WalkSideA_NoStampAtZero(w) ==
    IF ~w.a_active THEN w
    ELSE IF w.t.visited_b_search_ids[w.current_a] = w.t.search_id
    THEN [w EXCEPT !.meeting_node = w.current_a,
                   !.path_b = Trim(w.path_b, w.t.visited_b_indices[w.current_a]),
                   !.status = "met"]
    ELSE IF w.current_a = 0
         THEN [w EXCEPT !.a_active = FALSE]
         ELSE [w EXCEPT !.t.visited_a_search_ids[w.current_a] = w.t.search_id,
                        !.t.visited_a_indices[w.current_a] = Len(w.path_a),
                        !.path_a = Append(w.path_a, w.current_a),
                        !.current_a = w.t.parents[w.current_a]]

\* lines 89-111
WalkSideA(w) ==
    IF ~w.a_active THEN w
    ELSE IF w.t.visited_b_search_ids[w.current_a] = w.t.search_id
    THEN [w EXCEPT !.meeting_node = w.current_a,
                   !.path_b = Trim(w.path_b, w.t.visited_b_indices[w.current_a]),
                   !.status = "met"]
    ELSE LET m == [w EXCEPT !.t.visited_a_search_ids[w.current_a] = w.t.search_id,
                            !.t.visited_a_indices[w.current_a] = Len(w.path_a)]
         IN  IF w.current_a = 0
             THEN [m EXCEPT !.a_active = FALSE]
             ELSE [m EXCEPT !.path_a = Append(w.path_a, w.current_a),
                            !.current_a = w.t.parents[w.current_a]]

\* lines 113-135
WalkSideB(w) ==
    IF ~w.b_active THEN w
    ELSE IF w.t.visited_a_search_ids[w.current_b] = w.t.search_id
    THEN [w EXCEPT !.meeting_node = w.current_b,
                   !.path_a = Trim(w.path_a, w.t.visited_a_indices[w.current_b]),
                   !.status = "met"]
    ELSE LET m == [w EXCEPT !.t.visited_b_search_ids[w.current_b] = w.t.search_id,
                            !.t.visited_b_indices[w.current_b] = Len(w.path_b)]
         IN  IF w.current_b = 0
             THEN [m EXCEPT !.b_active = FALSE]
             ELSE [m EXCEPT !.path_b = Append(w.path_b, w.current_b),
                            !.current_b = w.t.parents[w.current_b]]

\* One turn of while (true), lines 88-141
WalkTurn(w) ==
    LET wa == WalkSideA(w)
    IN  IF wa.status = "met" THEN wa
        ELSE LET wb == WalkSideB(wa)
             IN  IF wb.status = "met" THEN wb
                 ELSE IF ~wb.a_active /\ ~wb.b_active
                      THEN [wb EXCEPT !.status = "nomeet"]
                      ELSE wb

\* The loop.  A walk on a forest of n nodes returns within n + 1 turns; a
\* walk that is still turning after 2n + 2 turns is inside a parent cycle
\* and never returns: status "diverge".
RECURSIVE WalkLoop(_, _)
WalkLoop(w, turns) ==
    IF w.status # "run" THEN w
    ELSE IF turns > 2 * w.t.num_nodes + 2 THEN [w EXCEPT !.status = "diverge"]
    ELSE WalkLoop(WalkTurn(w), turns + 1)

find_meeting_point(t, node_a, node_b) == WalkLoop(WalkInit(t, node_a, node_b), 0)

\* ---------------------------------------------- find_weakest_link_in_cycle
\* ScanPath comparing with <= : the incumbent loses ties.
RECURSIVE ScanPath_TieGoesToNew(_, _, _, _, _)
ScanPath_TieGoesToNew(t, path, i, side, acc) ==
    IF i >= Len(path) THEN acc
    ELSE LET link_score == t.scores[path[i + 1]]
         IN  ScanPath_TieGoesToNew(t, path, i + 1, side,
                      IF link_score <= acc.min_score
                      THEN [min_score |-> link_score, which_path |-> side,
                            position |-> i]
                      ELSE acc)

\* ScanPath that records the position but not the score of a weaker link, so
\* that the last link below the new score is chosen, not the weakest.
RECURSIVE ScanPath_KeepsNewScore(_, _, _, _, _)
ScanPath_KeepsNewScore(t, path, i, side, acc) ==
    IF i >= Len(path) THEN acc
    ELSE LET link_score == t.scores[path[i + 1]]
         IN  ScanPath_KeepsNewScore(t, path, i + 1, side,
                      IF link_score < acc.min_score
                      THEN [min_score |-> acc.min_score, which_path |-> side,
                            position |-> i]
                      ELSE acc)

RECURSIVE ScanPath(_, _, _, _, _)
ScanPath(t, path, i, side, acc) ==
    IF i >= Len(path) THEN acc
    ELSE LET link_score == t.scores[path[i + 1]]
         IN  ScanPath(t, path, i + 1, side,
                      IF link_score < acc.min_score
                      THEN [min_score |-> link_score, which_path |-> side,
                            position |-> i]
                      ELSE acc)

\* find_weakest_link_in_cycle scanning path_b before path_a.
find_weakest_link_in_cycle_BFirst(t, path_a, path_b, new_score) ==
    ScanPath(t, path_a, 0, "a",
        ScanPath(t, path_b, 0, "b",
            [min_score |-> new_score, which_path |-> "n", position |-> -1]))

find_weakest_link_in_cycle(t, path_a, path_b, new_score) ==
    ScanPath(t, path_b, 0, "b",
        ScanPath(t, path_a, 0, "a",
            [min_score |-> new_score, which_path |-> "n", position |-> -1]))

\* ------------------------------------------------------------ reverse_path
\* ReverseLoop that turns each link around but leaves on the node the
\* properties of the node's own former link.
RECURSIVE ReverseLoop_OwnProperties(_, _, _)
ReverseLoop_OwnProperties(t, path, i) ==
    IF i > 0
    THEN LET current_node_id == path[i + 1]
             prev_node_id == path[i]
         IN  ReverseLoop_OwnProperties(
                 set_link(t, current_node_id, prev_node_id,
                          t.scores[current_node_id],
                          t.raw_scores[current_node_id],
                          t.locations[current_node_id],
                          t.lengths[current_node_id]),
                 path, i - 1)
    ELSE t

RECURSIVE ReverseLoop(_, _, _)
ReverseLoop(t, path, i) ==
    IF i > 0
    THEN LET current_node_id == path[i + 1]
             prev_node_id == path[i]
         IN  ReverseLoop(
                 set_link(t, current_node_id, prev_node_id,
                          t.scores[prev_node_id], t.raw_scores[prev_node_id],
                          t.locations[prev_node_id], t.lengths[prev_node_id]),
                 path, i - 1)
    ELSE t

\* reverse_path that detaches the far end of the reversed stretch,
\* path[up_to_index], and not path[0].
reverse_path_DetachesFarEnd(t, path, up_to_index) ==
    LET r == ReverseLoop(t, path, up_to_index)
        start_node_id == path[up_to_index + 1]
    IN  set_link(r, start_node_id, start_node_id, -1, -1, -1, -1)

\* Lines 172-192.
reverse_path(t, path, up_to_index) ==
    LET r == ReverseLoop(t, path, up_to_index)
        start_node_id == path[1]
    IN  set_link(r, start_node_id, start_node_id, -1, -1, -1, -1)

\* ---------------------------------------------------------------- add_link
\* add_link without the self-loop test.
is_self_loop_Never(node_a, node_b) == FALSE

\* line 200
is_self_loop(node_a, node_b) == node_a = node_b

\* The object after the call, the value returned and the walk's results:
\* ret is "true", "false", or "hang" when find_meeting_point never returns.
add_link_body(t0, node_a, node_b, score, raw_score, location, length) ==
    LET t1 == [t0 EXCEPT !.links_processed = t0.links_processed + 1]
        m1 == IF node_a > t1.max_seen_id THEN node_a ELSE t1.max_seen_id
        m2 == IF node_b > m1 THEN node_b ELSE m1
        t2 == [t1 EXCEPT !.max_seen_id = m2]
    IN  IF is_self_loop(node_a, node_b)
        THEN [t |-> t2, ret |-> "false", walked |-> FALSE,
              meeting_node |-> -1, path_a |-> <<>>, path_b |-> <<>>]
        ELSE
        LET w == find_meeting_point(t2, node_a, node_b)
            out(t, ret) ==
                [t |-> t, ret |-> ret, walked |-> TRUE,
                 meeting_node |-> w.meeting_node,
                 path_a |-> w.path_a, path_b |-> w.path_b]
        IN  IF w.status = "diverge" THEN out(w.t, "hang")
            ELSE IF w.status = "nomeet" THEN out(w.t, "false")
            ELSE
            LET k == find_weakest_link_in_cycle(w.t, w.path_a, w.path_b, score)
            IN  IF k.which_path = "n"
                THEN out([w.t EXCEPT !.links_rejected = w.t.links_rejected + 1],
                         "false")
                ELSE
                LET t3 == IF k.which_path = "a"
                          THEN set_link(reverse_path(w.t, w.path_a, k.position),
                                        node_a, node_b, score, raw_score,
                                        location, length)
                          ELSE set_link(reverse_path(w.t, w.path_b, k.position),
                                        node_b, node_a, score, raw_score,
                                        location, length)
                IN  out([t3 EXCEPT !.links_added = t3.links_added + 1], "true")

\* Write the object back into the state.
Store(t) ==
    /\ num_nodes' = t.num_nodes
    /\ max_seen_id' = t.max_seen_id
    /\ parents' = t.parents
    /\ scores' = t.scores
    /\ raw_scores' = t.raw_scores
    /\ locations' = t.locations
    /\ lengths' = t.lengths
    /\ links_processed' = t.links_processed
    /\ links_added' = t.links_added
    /\ links_rejected' = t.links_rejected
    /\ visited_a_indices' = t.visited_a_indices
    /\ visited_b_indices' = t.visited_b_indices
    /\ visited_a_search_ids' = t.visited_a_search_ids
    /\ visited_b_search_ids' = t.visited_b_search_ids
    /\ search_id' = t.search_id

\* No call of align_local_core is in progress.
NoAlign == [at |-> "none"]

NoCall ==
    [op |-> "none", a |-> 0, b |-> 0, score |-> 0, raw_score |-> 0,
     location |-> 0, length |-> 0, ret |-> "false", walked |-> FALSE,
     meeting_node |-> -1, path_a |-> <<>>, path_b |-> <<>>, list |-> <<>>]

add_link(node_a, node_b, score, raw_score, location, length) ==
    /\ pc = "idle"
    /\ LET r == add_link_body(This, node_a, node_b, score, raw_score,
                              location, length)
       IN  /\ Store(r.t)
           /\ pc' = IF r.ret = "hang" THEN "hung" ELSE "idle"
           /\ last' = [op |-> "add_link", a |-> node_a, b |-> node_b,
                       score |-> score, raw_score |-> raw_score,
                       location |-> location, length |-> length,
                       ret |-> r.ret, walked |-> r.walked,
                       meeting_node |-> r.meeting_node,
                       path_a |-> r.path_a, path_b |-> r.path_b,
                       list |-> <<>>]
    /\ history' = Append(history, <<node_a, node_b, score>>)
    /\ UNCHANGED align

\* ------------------------------------------------------ get_twilight_nodes
\* The limit one short: std::min(max_seen_id, num_nodes).
ScanLimit_OneShort(t) ==
    IF t.max_seen_id < t.num_nodes THEN t.max_seen_id ELSE t.num_nodes

\* int limit = std::min(max_seen_id + 1, num_nodes)
ScanLimit(t) ==
    IF t.max_seen_id + 1 < t.num_nodes THEN t.max_seen_id + 1 ELSE t.num_nodes

\* scores[i] >= 0 && scores[i] < 300
IsTwilight(t, i) == t.scores[i] >= 0 /\ t.scores[i] < TwilightLimit

\* for (int i = 0; i < limit; i++) if (...) twilight.push_back(i)
RECURSIVE CollectTwilight(_, _, _, _)
CollectTwilight(t, i, limit, twilight) ==
    IF i >= limit THEN twilight
    ELSE CollectTwilight(t, i + 1, limit,
                         IF IsTwilight(t, i) THEN Append(twilight, i)
                         ELSE twilight)

\* std::sort(first, last, comp) with comp(a, b) = scores[a] > scores[b]: some
\* rearrangement of the list in which no later element goes before an earlier
\* one; the order of elements with equal scores is not determined.
SortByScoreDesc(t, list) ==
    LET n == Len(list)
        perms == {p \in [1 .. n -> 1 .. n] : \A i, j \in 1 .. n : i # j => p[i] # p[j]}
        comp(x, y) == t.scores[x] > t.scores[y]
    IN  {[i \in 1 .. n |-> list[p[i]]] : p \in
            {q \in perms : \A i, j \in 1 .. n :
                i < j => ~comp(list[q[j]], list[q[i]])}}

get_twilight_nodes(t) ==
    SortByScoreDesc(t, CollectTwilight(t, 0, ScanLimit(t), <<>>))

GetTwilightNodes ==
    /\ pc = "idle"
    /\ \E twilight \in get_twilight_nodes(This) :
          last' = [NoCall EXCEPT !.op = "get_twilight_nodes",
                                 !.list = twilight]
    /\ UNCHANGED <<align, num_nodes, max_seen_id, parents, scores, raw_scores,
                   locations, lengths, links_processed, links_added,
                   links_rejected, visited_a_indices, visited_b_indices,
                   visited_a_search_ids, visited_b_search_ids, search_id,
                   pc, history>>

\* --------------------------------------------------------------- find_root
\* for (int i = 0; i < limit; i++)
\*     if (scores[i] < 0 || parents[i] == i) roots.push_back(i)
RECURSIVE CollectRoots(_, _, _, _)
CollectRoots(t, i, limit, roots) ==
    IF i >= limit THEN roots
    ELSE CollectRoots(t, i + 1, limit,
                      IF t.scores[i] < 0 \/ t.parents[i] = i
                      THEN Append(roots, i) ELSE roots)

\* lines 284-289: children[parents[i]].push_back(i) for every attached
\* i < limit, in increasing order of i.  The vector has limit entries.
RECURSIVE FillChildren(_, _, _, _)
FillChildren(t, i, limit, children) ==
    IF i >= limit THEN children
    ELSE FillChildren(t, i + 1, limit,
                      IF t.scores[i] >= 0
                      THEN [children EXCEPT ![t.parents[i]] = Append(@, i)]
                      ELSE children)

\* The index parents[i] used at line 287 lies inside the vector.
ChildIndexInRange(t, limit) ==
    \A i \in 0 .. (limit - 1) :
        t.scores[i] >= 0 => (t.parents[i] >= 0 /\ t.parents[i] < limit)

RECURSIVE SumSeq(_, _)
SumSeq(s, i) == IF i > Len(s) THEN 0 ELSE s[i] + SumSeq(s, i + 1)

\* count_descendants; the recursion is as deep as the children relation, and
\* a call deeper than the number of entries is inside a cycle and never
\* returns: the result is then -1.
RECURSIVE count_descendants(_, _, _)
count_descendants(node, children, depth) ==
    IF depth > Cardinality(DOMAIN children) THEN -1
    ELSE LET kids == children[node]
             sub == [c \in 1 .. Len(kids) |->
                        count_descendants(kids[c], children, depth + 1)]
         IN  IF \E c \in 1 .. Len(kids) : sub[c] = -1 THEN -1
             ELSE Len(kids) + SumSeq(sub, 1)

\* BestRoot with count >= max_desc: the last of the best candidates wins.
RECURSIVE BestRoot_LastWins(_, _, _, _, _)
BestRoot_LastWins(roots, children, r, best_root, max_desc) ==
    IF r > Len(roots) THEN best_root
    ELSE LET count == count_descendants(roots[r], children, 0)
         IN  IF count = -1 THEN -1
             ELSE IF count >= max_desc
             THEN BestRoot_LastWins(roots, children, r + 1, roots[r], count)
             ELSE BestRoot_LastWins(roots, children, r + 1, best_root, max_desc)

\* for (int r : roots) ... if (count > max_desc) ..., lines 291-300; -1 when
\* a count never returns.
RECURSIVE BestRoot(_, _, _, _, _)
BestRoot(roots, children, r, best_root, max_desc) ==
    IF r > Len(roots) THEN best_root
    ELSE LET count == count_descendants(roots[r], children, 0)
         IN  IF count = -1 THEN -1
             ELSE IF count > max_desc
             THEN BestRoot(roots, children, r + 1, roots[r], count)
             ELSE BestRoot(roots, children, r + 1, best_root, max_desc)

\* The value returned, or "hang" / "out_of_bounds" in status.
find_root(t) ==
    LET limit == ScanLimit(t)
        roots == CollectRoots(t, 0, limit, <<>>)
    IN  IF roots = <<>> THEN [status |-> "ok", root |-> 0]
        ELSE IF Len(roots) = 1 THEN [status |-> "ok", root |-> roots[1]]
        ELSE IF ~ChildIndexInRange(t, limit)
        THEN [status |-> "out_of_bounds", root |-> -1]
        ELSE LET children == FillChildren(t, 0, limit,
                                          [p \in 0 .. (limit - 1) |-> <<>>])
                 best == BestRoot(roots, children, 1, roots[1], -1)
             IN  IF best = -1 THEN [status |-> "hang", root |-> -1]
                 ELSE [status |-> "ok", root |-> best]

FindRoot ==
    /\ pc = "idle"
    /\ LET r == find_root(This)
       IN  /\ pc' = CASE r.status = "ok" -> "idle"
                      [] r.status = "hang" -> "hung"
                      [] OTHER -> "corrupt"
           /\ last' = [NoCall EXCEPT !.op = "find_root", !.list = <<r.root>>]
    /\ UNCHANGED <<align, num_nodes, max_seen_id, parents, scores, raw_scores,
                   locations, lengths, links_processed, links_added,
                   links_rejected, visited_a_indices, visited_b_indices,
                   visited_a_search_ids, visited_b_search_ids, search_id,
                   history>>

\* ------------------------------------------------------ build_children_map
\* PushChild without the test of scores[i]: every node is put under its
\* parent entry.
PushChild_AnyNode(t, i, limit, children) ==
    LET p == t.parents[i]
    IN  IF p < limit THEN [children EXCEPT ![p] = Append(@, i)]
        ELSE children

\* The body of the loop at lines 251-258.
PushChild(t, i, limit, children) ==
    IF t.scores[i] >= 0
    THEN LET p == t.parents[i]
         IN  IF p < limit THEN [children EXCEPT ![p] = Append(@, i)]
             ELSE children
    ELSE children

RECURSIVE PushChildren(_, _, _, _)
PushChildren(t, i, limit, children) ==
    IF i >= limit THEN children
    ELSE PushChildren(t, i + 1, limit, PushChild(t, i, limit, children))

\* for (auto& list : children) std::sort(...), lines 261-265: every way the
\* lists can come out, as sequences whose entry p + 1 is children[p].
RECURSIVE SortEach(_, _, _, _)
SortEach(t, children, p, limit) ==
    IF p >= limit THEN {<<>>}
    ELSE {<<list>> \o rest : list \in SortByScoreDesc(t, children[p]),
                             rest \in SortEach(t, children, p + 1, limit)}

build_children_map(t) ==
    LET limit == ScanLimit(t)
    IN  SortEach(t, PushChildren(t, 0, limit,
                                 [p \in 0 .. (limit - 1) |-> <<>>]),
                 0, limit)

BuildChildrenMap ==
    /\ pc = "idle"
    /\ \E children \in build_children_map(This) :
          last' = [NoCall EXCEPT !.op = "build_children_map",
                                 !.list = children]
    /\ UNCHANGED <<align, num_nodes, max_seen_id, parents, scores, raw_scores,
                   locations, lengths, links_processed, links_added,
                   links_rejected, visited_a_indices, visited_b_indices,
                   visited_a_search_ids, visited_b_search_ids, search_id,
                   pc, history>>

\* ------------------------------------------------------------------ inputs
Scores == {-1, 0, TwilightLimit - 1, TwilightLimit}

InitBuilder(n) ==
    LET t == MaxSpanningTree(n)
    IN  /\ num_nodes = t.num_nodes
        /\ max_seen_id = t.max_seen_id
        /\ parents = t.parents
        /\ scores = t.scores
        /\ raw_scores = t.raw_scores
        /\ locations = t.locations
        /\ lengths = t.lengths
        /\ links_processed = t.links_processed
        /\ links_added = t.links_added
        /\ links_rejected = t.links_rejected
        /\ visited_a_indices = t.visited_a_indices
        /\ visited_b_indices = t.visited_b_indices
        /\ visited_a_search_ids = t.visited_a_search_ids
        /\ visited_b_search_ids = t.visited_b_search_ids
        /\ search_id = t.search_id
        /\ pc = "idle"
        /\ last = NoCall
        /\ history = <<>>

Init == InitBuilder(NumNodes) /\ align = NoAlign

\* Any two ids of the builder and any score; the record's position in the
\* stream serves as its location, so that no two offers carry the same
\* properties, and raw_score, location and length are pairwise different.
AddLink ==
    /\ links_processed < MaxCalls
    /\ \E node_a \in Nodes, node_b \in Nodes, score \in Scores :
          add_link(node_a, node_b, score, score + 1, 1000 + links_processed,
                   2000 + links_processed)

Next == AddLink

Spec == Init /\ [][Next]_vars

\* ------------------------------------------------ a set of edges, any order
\* The stream is a set of edges with two different endpoints and a score
\* that is not negative, each offered once, in any order.
MaxOrderCalls == 4

OrderScores == {0, 2}

InitOrder == InitBuilder(NumNodes) /\ align = NoAlign

AddDistinctLink ==
    /\ links_processed < MaxOrderCalls
    /\ \E node_a \in Nodes, node_b \in Nodes, score \in OrderScores :
          /\ node_a # node_b
          /\ \A i \in 1 .. Len(history) :
                history[i] # <<node_a, node_b, score>>
          /\ add_link(node_a, node_b, score, score + 1,
                      1000 + links_processed, 2000 + links_processed)

NextOrder == AddDistinctLink

SpecOrder == InitOrder /\ [][NextOrder]_vars

\* ---------------------------------------------------- post-processing runs
\* The post-processing methods applied to every builder that add_link can
\* produce (on a builder one node smaller, which keeps the run short).
InitPost == InitBuilder(NumNodes - 1) /\ align = NoAlign

NextPost == AddLink \/ GetTwilightNodes \/ FindRoot \/ BuildChildrenMap

SpecPost == InitPost /\ [][NextPost]_vars

\* ------------------------------------------------------- the two chains
\* The edges of the two-chain scenarios, offered in any order to a builder
\* of ten nodes.
MaxChainCalls == 5

ChainEdges ==
    {<<1, 2, 5>>, <<2, 3, 5>>, <<6, 7, 5>>, <<7, 8, 5>>, <<3, 8, 1>>,
     <<3, 8, 100>>}

TwoChains == <<(<<1, 2, 5>>), (<<2, 3, 5>>), (<<6, 7, 5>>), (<<7, 8, 5>>)>>

InitChains == InitBuilder(10) /\ align = NoAlign

AddChainLink ==
    /\ links_processed < MaxChainCalls
    /\ \E e \in ChainEdges :
          add_link(e[1], e[2], e[3], e[3] + 1, 1000 + links_processed,
                   2000 + links_processed)

NextChains == AddChainLink

SpecChains == InitChains /\ [][NextChains]_vars

\* ------------------------------------------------------------- the driver
\* main, lines 429-461: one turn of the read loop on one line of the input.
\* A line is the number of comma-separated parts it has, whether std::stoi
\* throws on one of the first five, and the five integers otherwise.
Skip(rec) ==
    /\ last' = [NoCall EXCEPT !.op = "skip", !.a = rec.query,
                              !.b = rec.target, !.score = rec.score]
    /\ UNCHANGED <<align, num_nodes, max_seen_id, parents, scores, raw_scores,
                   locations, lengths, links_processed, links_added,
                   links_rejected, visited_a_indices, visited_b_indices,
                   visited_a_search_ids, visited_b_search_ids, search_id,
                   pc, history>>

\* add_link with an id below 0 and node_a # node_b: after links_processed++
\* and search_id++ the walk indexes visited_?_search_ids at -1, outside the
\* vector.  The behaviour is undefined: the process dies there ("crashed"),
\* or it goes on with whatever lies before the arrays, read and overwritten
\* ("corrupt"); in both cases the object is not described any further.
add_link_out_of_bounds(node_a, node_b, score) ==
    /\ \E outcome \in {"crashed", "corrupt"} : pc' = outcome
    /\ links_processed' = links_processed + 1
    /\ search_id' = search_id + 1
    /\ last' = [NoCall EXCEPT !.op = "add_link", !.a = node_a, !.b = node_b,
                              !.score = score, !.raw_score = score,
                              !.walked = TRUE]
    /\ history' = Append(history, <<node_a, node_b, score>>)
    /\ UNCHANGED <<align, num_nodes, max_seen_id, parents, scores, raw_scores,
                   locations, lengths, links_added, links_rejected,
                   visited_a_indices, visited_b_indices,
                   visited_a_search_ids, visited_b_search_ids>>

process_record(rec) ==
    /\ pc = "idle"
    /\ IF rec.parts < 5 THEN Skip(rec)
       ELSE IF rec.stoi_throws THEN Skip(rec)
       ELSE IF rec.query >= num_nodes \/ rec.target >= num_nodes THEN Skip(rec)
       ELSE IF (rec.query < 0 \/ rec.target < 0) /\ rec.query # rec.target
       THEN add_link_out_of_bounds(rec.query, rec.target, rec.score)
       ELSE add_link(rec.query, rec.target, rec.score, rec.score,
                     rec.location, rec.length)

DriverScores == {0, TwilightLimit}

\* Every well-formed line over the ids -1 .. num_nodes, a line of four parts
\* and a line with a part that is no number.
Records ==
    [parts : {5}, stoi_throws : {FALSE},
     query : -1 .. num_nodes, target : -1 .. num_nodes,
     score : DriverScores,
     location : {1000 + links_processed}, length : {2000 + links_processed}]
    \cup
    [parts : {4, 5}, stoi_throws : {TRUE},
     query : {1}, target : {2}, score : {0}, location : {0}, length : {0}]
    \cup
    [parts : {4}, stoi_throws : {FALSE},
     query : {1}, target : {2}, score : {0}, location : {0}, length : {0}]

InitDriver == InitBuilder(NumNodes - 1) /\ align = NoAlign

ProcessRecord ==
    /\ links_processed < MaxCalls
    /\ \E rec \in Records : process_record(rec)

NextDriver == ProcessRecord

SpecDriver == InitDriver /\ [][NextDriver]_vars

\* ============================================ c_src/sw_align_core.cpp
\* The variables of the tree builder, which a call of the aligner leaves
\* alone.
builder == <<num_nodes, max_seen_id, parents, scores, raw_scores, locations,
             lengths, links_processed, links_added, links_rejected,
             visited_a_indices, visited_b_indices, visited_a_search_ids,
             visited_b_search_ids, search_id, pc, last, history>>

\* A float is modelled by the integer it holds; the inputs are floats that
\* hold integers.  A sum is rounded as the float sum is: to 24 significant
\* bits, ties to the even significand.
FloatPrecision == 16777216

RECURSIVE FloatUlp(_, _)
FloatUlp(magnitude, ulp) ==
    IF magnitude < FloatPrecision * ulp THEN ulp
    ELSE FloatUlp(magnitude, 2 * ulp)

RoundToFloat(v) ==
    LET magnitude == IF v < 0 THEN -v ELSE v
        ulp == FloatUlp(magnitude, 1)
        q == magnitude \div ulp
        r == magnitude % ulp
        rounded == IF 2 * r < ulp THEN q
                   ELSE IF 2 * r > ulp THEN q + 1
                   ELSE IF q % 2 = 0 THEN q ELSE q + 1
    IN  IF v < 0 THEN -(rounded * ulp) ELSE rounded * ulp

fadd(x, y) == RoundToFloat(x + y)

\* char & 31, for the characters of the inputs, which are above 0.
Idx(char) == char % 32

\* matrix[idx_a * 32 + idx_b]: the flattened 32 x 32 matrix of a description
\* that gives the entries of the index pairs (1,1), (1,3), (3,1), (3,3) and
\* one value for every other entry.
Flat(matrix) ==
    [e \in 0 .. 1023 |->
        CASE e = 1 * 32 + 1 -> matrix.aa
          [] e = 1 * 32 + 3 -> matrix.ac
          [] e = 3 * 32 + 1 -> matrix.ca
          [] e = 3 * 32 + 3 -> matrix.cc
          [] OTHER -> matrix.other]

\* What an output buffer entry holds until the function writes it.
Unwritten == -2

\* The state at the entry of align_local_core, lines 36-50.  caller_len is
\* what the caller left in *out_len.  The index buffers have len_a + len_b
\* entries.
Enter(seq_a, seq_b, matrix, gap_extend, caller_len) ==
    [at |-> "entry",
     seq_a |-> seq_a, len_a |-> Len(seq_a),
     seq_b |-> seq_b, len_b |-> Len(seq_b),
     matrix |-> matrix, gap_extend |-> gap_extend,
     m |-> Len(seq_a), n |-> Len(seq_b),
     allocated |-> FALSE, H |-> <<>>,
     max_score_val |-> 0, max_i |-> 0, max_j |-> 0,
     i |-> 0, j |-> 0, k |-> 0,
     out_score |-> [written |-> FALSE, value |-> 0],
     out_len |-> [written |-> FALSE, value |-> caller_len],
     out_indices_a |-> [e \in 0 .. (Len(seq_a) + Len(seq_b) - 1) |-> Unwritten],
     out_indices_b |-> [e \in 0 .. (Len(seq_a) + Len(seq_b) - 1) |-> Unwritten],
     overrun |-> FALSE]

\* score_match for the cell (i, j), lines 67-73 and 122-126.
ScoreMatch(c, i, j) ==
    Flat(c.matrix)[Idx(c.seq_a[i]) * 32 + Idx(c.seq_b[j])]

\* CellScore without insert_val.
CellScore_NoInsert(c, i, j) ==
    LET match == fadd(c.H[(i - 1) * (c.n + 1) + (j - 1)], ScoreMatch(c, i, j))
        delete_val == fadd(c.H[(i - 1) * (c.n + 1) + j], c.gap_extend)
        s1 == IF match > 0 THEN match ELSE 0
        s2 == IF delete_val > s1 THEN delete_val ELSE s1
    IN  s2

\* The score of the cell (i, j), lines 75-90.
CellScore(c, i, j) ==
    LET match == fadd(c.H[(i - 1) * (c.n + 1) + (j - 1)], ScoreMatch(c, i, j))
        delete_val == fadd(c.H[(i - 1) * (c.n + 1) + j], c.gap_extend)
        insert_val == fadd(c.H[i * (c.n + 1) + (j - 1)], c.gap_extend)
        s1 == IF match > 0 THEN match ELSE 0
        s2 == IF delete_val > s1 THEN delete_val ELSE s1
        s3 == IF insert_val > s2 THEN insert_val ELSE s2
    IN  s3

\* The body of the inner loop, lines 66-98.
FillCell(c, i, j) ==
    LET score == CellScore(c, i, j)
        h == [c EXCEPT !.H[i * (c.n + 1) + j] = score]
    IN  IF score > c.max_score_val
        THEN [h EXCEPT !.max_score_val = score, !.max_i = i, !.max_j = j]
        ELSE h

\* for (i = 1; i <= m; i++) for (j = 1; j <= n; j++), lines 64-99.
RECURSIVE FillLoop(_, _, _)
FillLoop(c, i, j) ==
    IF i > c.m THEN c
    ELSE IF j > c.n THEN FillLoop(c, i + 1, 1)
    ELSE FillLoop(FillCell(c, i, j), i, j + 1)

\* calloc returns NULL, lines 54-57: the score slot is written and nothing
\* else.
AllocFails ==
    /\ align.at = "entry"
    /\ align' = [align EXCEPT !.at = "returned",
                              !.out_score = [written |-> TRUE, value |-> -1]]
    /\ UNCHANGED builder

\* calloc succeeds; lines 53-112: the matrix is filled, the score is
\* reported, and the function returns with an empty path or sets out for
\* the traceback.
FillMatrix ==
    /\ align.at = "entry"
    /\ LET zeroed == [align EXCEPT
                        !.allocated = TRUE,
                        !.H = [e \in 0 .. ((align.m + 1) * (align.n + 1) - 1)
                                  |-> 0]]
           c == FillLoop(zeroed, 1, 1)
           scored == [c EXCEPT !.out_score
                                  = [written |-> TRUE,
                                     value |-> c.max_score_val]]
       IN  align' = IF c.max_score_val <= 0
                    THEN [scored EXCEPT !.out_len = [written |-> TRUE,
                                                     value |-> 0],
                                        !.allocated = FALSE,
                                        !.at = "returned"]
                    ELSE [scored EXCEPT !.i = c.max_i, !.j = c.max_j,
                                        !.k = 0, !.at = "traceback"]
    /\ UNCHANGED builder

\* The loop test without H[i][j] > 0.
TraceGuard_NoScoreTest(c) == c.i > 0 /\ c.j > 0

\* while (i > 0 && j > 0 && H[i * (n + 1) + j] > 0), line 115.
TraceGuard(c) == c.i > 0 /\ c.j > 0 /\ c.H[c.i * (c.n + 1) + c.j] > 0

\* out_indices_a[k] = ia; out_indices_b[k] = ib; an entry past the end of
\* the buffers is recorded in overrun.
Emit(c, ia, ib) ==
    IF c.k \in DOMAIN c.out_indices_a
    THEN [c EXCEPT !.out_indices_a[c.k] = ia, !.out_indices_b[c.k] = ib]
    ELSE [c EXCEPT !.overrun = TRUE]

\* TraceBody with the up test before the diagonal test.
TraceBody_UpFirst(c) ==
    LET current_score == c.H[c.i * (c.n + 1) + c.j]
        diagonal == c.H[(c.i - 1) * (c.n + 1) + (c.j - 1)]
        up == c.H[(c.i - 1) * (c.n + 1) + c.j]
        score_match == ScoreMatch(c, c.i, c.j)
        e == IF current_score = fadd(up, c.gap_extend)
             THEN [Emit(c, c.i - 1, -1) EXCEPT !.i = c.i - 1]
             ELSE IF current_score = fadd(diagonal, score_match)
             THEN [Emit(c, c.i - 1, c.j - 1) EXCEPT !.i = c.i - 1,
                                                    !.j = c.j - 1]
             ELSE [Emit(c, -1, c.j - 1) EXCEPT !.j = c.j - 1]
    IN  [e EXCEPT !.k = c.k + 1]

\* TraceBody that emits the cell's own coordinates i and j, not i - 1 and
\* j - 1.
TraceBody_OneBased(c) ==
    LET current_score == c.H[c.i * (c.n + 1) + c.j]
        diagonal == c.H[(c.i - 1) * (c.n + 1) + (c.j - 1)]
        up == c.H[(c.i - 1) * (c.n + 1) + c.j]
        score_match == ScoreMatch(c, c.i, c.j)
        e == IF current_score = fadd(diagonal, score_match)
             THEN [Emit(c, c.i, c.j) EXCEPT !.i = c.i - 1, !.j = c.j - 1]
             ELSE IF current_score = fadd(up, c.gap_extend)
             THEN [Emit(c, c.i, -1) EXCEPT !.i = c.i - 1]
             ELSE [Emit(c, -1, c.j) EXCEPT !.j = c.j - 1]
    IN  [e EXCEPT !.k = c.k + 1]

\* One turn of the traceback loop, lines 116-188.
TraceBody(c) ==
    LET current_score == c.H[c.i * (c.n + 1) + c.j]
        diagonal == c.H[(c.i - 1) * (c.n + 1) + (c.j - 1)]
        up == c.H[(c.i - 1) * (c.n + 1) + c.j]
        score_match == ScoreMatch(c, c.i, c.j)
        e == IF current_score = fadd(diagonal, score_match)
             THEN [Emit(c, c.i - 1, c.j - 1) EXCEPT !.i = c.i - 1,
                                                    !.j = c.j - 1]
             ELSE IF current_score = fadd(up, c.gap_extend)
             THEN [Emit(c, c.i - 1, -1) EXCEPT !.i = c.i - 1]
             ELSE [Emit(c, -1, c.j - 1) EXCEPT !.j = c.j - 1]
    IN  [e EXCEPT !.k = c.k + 1]

TraceStep ==
    /\ align.at = "traceback"
    /\ TraceGuard(align)
    /\ align' = TraceBody(align)
    /\ UNCHANGED builder

\* The loop is left, lines 191-193: *out_len = k; free(H); return.
TraceEnd ==
    /\ align.at = "traceback"
    /\ ~TraceGuard(align)
    /\ align' = [align EXCEPT !.out_len = [written |-> TRUE,
                                           value |-> align.k],
                              !.allocated = FALSE,
                              !.at = "returned"]
    /\ UNCHANGED builder

\* ----------------------------------------------------- the aligner's inputs
MaxLen == 3

\* 'A', 'C' and 'a': the first and the last have the same low five bits.
Alphabet == {65, 67, 97}

RECURSIVE SeqsUpTo(_)
SeqsUpTo(len) ==
    IF len = 0 THEN {<<>>}
    ELSE SeqsUpTo(len - 1)
           \cup {Append(q, x) : q \in {r \in SeqsUpTo(len - 1) : Len(r) = len - 1},
                                x \in Alphabet}

\* Match 2 and mismatch -1; a matrix that is not symmetric; a matrix with an
\* entry at the float precision, where a sum is rounded.
Matrices ==
    {[aa |-> 2, ac |-> -1, ca |-> -1, cc |-> 2, other |-> 0],
     [aa |-> 1, ac |-> 2, ca |-> -1, cc |-> 0, other |-> 0],
     [aa |-> FloatPrecision, ac |-> -1, ca |-> -1, cc |-> 1, other |-> 0]}

GapExtends == {-1, 0, 1}

\* What *out_len can hold when the function is called.
CallerLens == {0, 7}

InitAlign ==
    /\ InitBuilder(1)
    /\ \E seq_a \in SeqsUpTo(MaxLen), seq_b \in SeqsUpTo(MaxLen),
          matrix \in Matrices, gap_extend \in GapExtends,
          caller_len \in CallerLens :
          align = Enter(seq_a, seq_b, matrix, gap_extend, caller_len)

NextAlign == AllocFails \/ FillMatrix \/ TraceStep \/ TraceEnd

SpecAlign == InitAlign /\ [][NextAlign]_vars

\* ================================================================ claims
\* Notions of the tree that do not go through the walk.
Range(s) == {s[i] : i \in 1 .. Len(s)}

MinOf(S) == CHOOSE m \in S : \A x \in S : m <= x

\* v, parents[v], ... up to node 0 or a self-root, at most k steps.
RECURSIVE Chain(_, _)
Chain(v, k) ==
    IF v = 0 \/ parents[v] = v \/ k = 0 THEN <<v>>
    ELSE <<v>> \o Chain(parents[v], k - 1)

RECURSIVE ReachesRoot(_, _)
ReachesRoot(v, k) ==
    \/ v = 0
    \/ parents[v] = v
    \/ k > 0 /\ ReachesRoot(parents[v], k - 1)

\* The nodes whose stored link lies on the tree path between a and b: those
\* of either chain below the first node the chains share.
TreePathNodes(a, b) ==
    LET ca == Chain(a, num_nodes)
        cb == Chain(b, num_nodes)
        common == Range(ca) \cap Range(cb)
        Below(c) == {c[j] : j \in {i \in 1 .. Len(c) :
                                      \A k \in 1 .. i : c[k] \notin common}}
    IN  Below(ca) \cup Below(cb)

PathMin(a, b) == MinOf({scores[x] : x \in TreePathNodes(a, b)})

EdgeAt(par, sc, raw, loc, len, v) ==
    [ends |-> {v, par[v]}, score |-> sc[v], raw_score |-> raw[v],
     location |-> loc[v], length |-> len[v]]

TreeEdgesOf(par, sc, raw, loc, len) ==
    {EdgeAt(par, sc, raw, loc, len, v) : v \in {x \in Nodes : sc[x] >= 0}}

TreeEdges == TreeEdgesOf(parents, scores, raw_scores, locations, lengths)

SelfLoops ==
    Cardinality({i \in 1 .. Len(history) : history[i][1] = history[i][2]})

\* A step in which add_link was called.
AddLinkStep == Len(history') = Len(history) + 1 /\ last'.op = "add_link"

WalkedNodes == Range(last.path_a) \cup Range(last.path_b)

\* C1: for every edge <<a, b, w>> offered so far with a # b, the lowest score
\* stored on the tree path between a and b is at least w.
C1_Maximality ==
    \A i \in 1 .. Len(history) :
        LET e == history[i]
        IN  e[1] # e[2] =>
                /\ TreePathNodes(e[1], e[2]) # {}
                /\ PathMin(e[1], e[2]) >= e[3]

\* An offered edge of score >= 0 that is not in the tree, its endpoints joined
\* by a tree path of two links, after an edge was displaced.
C1_Witness ==
    /\ links_added >= 2
    /\ \E i \in 1 .. Len(history) :
          LET e == history[i]
          IN  /\ e[1] # e[2] /\ e[3] >= 0
              /\ parents[e[1]] # e[2] /\ parents[e[2]] # e[1]
              /\ Cardinality(TreePathNodes(e[1], e[2])) = 2
              /\ PathMin(e[1], e[2]) > e[3]

\* C2: from every attached node the parent pointers lead to node 0 or to a
\* self-root within num_nodes steps.
C2_Forest ==
    \A v \in Nodes : scores[v] >= 0 => ReachesRoot(v, num_nodes)

\* A tree three links deep, built by an accepted call.
C2_Witness ==
    /\ last.op = "add_link" /\ last.ret = "true"
    /\ \E v \in Nodes :
          /\ scores[v] >= 0 /\ scores[parents[v]] >= 0
          /\ scores[parents[parents[v]]] >= 0
          /\ Len(Chain(v, num_nodes)) = 4

\* C3: an accepted add_link is one swap: a lowest-scored link of the walked
\* paths goes, the new edge is stored at a when that link was on side a and at
\* b when on side b, with the supplied properties, every other tree edge stays
\* with its four properties, and links_added grows by 1.
C3_AcceptIsOneSwap ==
    [][(AddLinkStep /\ last'.ret = "true") =>
        LET a == last'.a
            b == last'.b
            P == Range(last'.path_a) \cup Range(last'.path_b)
            new == [ends |-> {a, b}, score |-> last'.score,
                    raw_score |-> last'.raw_score,
                    location |-> last'.location, length |-> last'.length]
            StoredAt(v, p) ==
                /\ parents'[v] = p
                /\ scores'[v] = last'.score
                /\ raw_scores'[v] = last'.raw_score
                /\ locations'[v] = last'.location
                /\ lengths'[v] = last'.length
        IN  /\ links_added' = links_added + 1
            /\ P # {}
            /\ \E x \in P :
                  /\ scores[x] = MinOf({scores[y] : y \in P})
                  /\ TreeEdgesOf(parents', scores', raw_scores', locations',
                                 lengths')
                       = (TreeEdges \ {EdgeAt(parents, scores, raw_scores,
                                              locations, lengths, x)})
                         \cup {new}
                  /\ x \in Range(last'.path_a) => StoredAt(a, b)
                  /\ x \in Range(last'.path_b) => StoredAt(b, a)
    ]_vars

\* An accepted call that displaced a real edge further up path_a, so that a
\* real link below it was turned around: the second node of the path now
\* points at the first and carries an older edge.
C3_Witness ==
    /\ last.op = "add_link" /\ last.ret = "true"
    /\ links_added = 3
    /\ Cardinality(TreeEdges) = 2
    /\ Len(last.path_a) >= 2
    /\ parents[last.path_a[2]] = last.path_a[1]
    /\ scores[last.path_a[2]] >= 0
    /\ locations[last.path_a[2]] < last.location

\* C4: for a # b the call is rejected exactly when score is at most the
\* lowest score stored on the walked nodes; a rejected call bumps
\* links_rejected and leaves the five arrays and links_added alone.
C4_RejectRule ==
    [][(AddLinkStep /\ last'.a # last'.b) =>
        LET P == Range(last'.path_a) \cup Range(last'.path_b)
        IN  /\ P # {}
            /\ (last'.ret = "false")
                 <=> (last'.score <= MinOf({scores[x] : x \in P}))
            /\ last'.ret = "false" =>
                  /\ links_rejected' = links_rejected + 1
                  /\ UNCHANGED <<parents, scores, raw_scores, locations,
                                 lengths, links_added>>
    ]_vars

\* A call rejected on a tie with a real edge.
C4_Witness ==
    /\ last.op = "add_link" /\ last.a # last.b /\ last.ret = "false"
    /\ last.score >= 0
    /\ last.score = MinOf({scores[x] : x \in WalkedNodes})

\* C5: links_added + links_rejected + self-loops = links_processed, and every
\* walk returned with a meeting node.
C5_CounterLaw ==
    /\ links_added + links_rejected + SelfLoops = links_processed
    /\ pc # "hung"
    /\ (last.op = "add_link" /\ last.a # last.b) =>
          /\ last.ret \in {"true", "false"}
          /\ last.meeting_node \in Nodes

\* One call of each kind has been made, the last one between two components.
C5_Witness ==
    /\ links_added = 1 /\ links_rejected = 1 /\ SelfLoops = 1
    /\ last.op = "add_link" /\ last.a # last.b /\ last.meeting_node = 0
    /\ last.a # 0 /\ last.b # 0

\* C8 as stated: a self-loop call returns false and changes no counter, no
\* stamp and no node.
C8_SelfLoopChangesNothing ==
    [][(AddLinkStep /\ last'.a = last'.b) =>
        /\ last'.ret = "false"
        /\ ~last'.walked
        /\ UNCHANGED <<links_processed, links_added, links_rejected,
                       search_id, visited_a_indices, visited_b_indices,
                       visited_a_search_ids, visited_b_search_ids,
                       parents, scores, raw_scores, locations, lengths>>
    ]_vars

\* C8 amended: a self-loop call returns false without walking, counts in
\* links_processed only and changes no stamp and no node.
C8_SelfLoopCountsAsProcessed ==
    [][(AddLinkStep /\ last'.a = last'.b) =>
        /\ last'.ret = "false"
        /\ ~last'.walked
        /\ links_processed' = links_processed + 1
        /\ UNCHANGED <<links_added, links_rejected,
                       search_id, visited_a_indices, visited_b_indices,
                       visited_a_search_ids, visited_b_search_ids,
                       parents, scores, raw_scores, locations, lengths>>
    ]_vars

\* A self-loop on an attached node, after a walk has left stamps.
C8_Witness ==
    /\ last.op = "add_link" /\ last.a = last.b
    /\ scores[last.a] >= 0
    /\ search_id >= 1
    /\ links_processed = links_added + 1

\* C6 as stated: after the two chains, add_link(3, 8, 1) is rejected:
\* links_rejected becomes 1, links_added stays 4, the tree is unchanged.
C6_LightJoinRejected ==
    [][(AddLinkStep /\ history = TwoChains
            /\ history' = Append(TwoChains, <<3, 8, 1>>)) =>
        /\ last'.ret = "false"
        /\ links_rejected' = 1
        /\ links_added' = 4
        /\ UNCHANGED <<parents, scores, raw_scores, locations, lengths>>
    ]_vars

\* C6 amended: after the two chains, add_link(3, 8, 1) is accepted: the walks
\* meet at node 0, the links compared are the unset ones of the chain ends 3
\* and 8 (score -1), the edge is stored at node 3, the four edges of weight 5
\* stay, links_added becomes 5 and links_rejected stays 0.
C6_LightJoinAccepted ==
    [][(AddLinkStep /\ history = TwoChains
            /\ history' = Append(TwoChains, <<3, 8, 1>>)) =>
        /\ last'.ret = "true"
        /\ last'.meeting_node = 0
        /\ last'.path_a = <<3>> /\ last'.path_b = <<8>>
        /\ scores[3] = -1 /\ scores[8] = -1
        /\ links_added = 4 /\ links_added' = 5
        /\ links_rejected' = 0
        /\ parents' = [parents EXCEPT ![3] = 8]
        /\ scores' = [scores EXCEPT ![3] = 1]
        /\ raw_scores' = [raw_scores EXCEPT ![3] = last'.raw_score]
        /\ locations' = [locations EXCEPT ![3] = last'.location]
        /\ lengths' = [lengths EXCEPT ![3] = last'.length]
        /\ Cardinality({e \in TreeEdgesOf(parents', scores', raw_scores',
                                          locations', lengths') :
                           e.score = 5}) = 4
    ]_vars

\* The two chains followed by the edge (3, 8, 1).
C6_Witness ==
    /\ history = Append(TwoChains, <<3, 8, 1>>)
    /\ last.op = "add_link" /\ last.a = 3 /\ last.b = 8 /\ last.score = 1
    /\ links_processed = 5

\* C7 as stated: after the two chains, add_link(3, 8, 100) is accepted and one
\* of the four edges of weight 5 is no longer in the tree.
C7_HeavyJoinDisplaces ==
    [][(AddLinkStep /\ history = TwoChains
            /\ history' = Append(TwoChains, <<3, 8, 100>>)) =>
        /\ last'.ret = "true"
        /\ \E e \in TreeEdges :
              /\ e.score = 5
              /\ e \notin TreeEdgesOf(parents', scores', raw_scores',
                                      locations', lengths')
    ]_vars

\* C7 amended: after the two chains, add_link(3, 8, 100) is accepted and
\* displaces no real edge: the link removed is the unset one of node 3, the
\* tree afterwards is the four edges of weight 5 and the new edge, stored at
\* node 3 with the supplied properties, and links_added becomes 5.
C7_HeavyJoinKeepsChains ==
    [][(AddLinkStep /\ history = TwoChains
            /\ history' = Append(TwoChains, <<3, 8, 100>>)) =>
        /\ last'.ret = "true"
        /\ Cardinality(TreeEdges) = 4
        /\ \A e \in TreeEdges : e.score = 5
        /\ TreeEdgesOf(parents', scores', raw_scores', locations', lengths')
             = TreeEdges \cup
                 {[ends |-> {3, 8}, score |-> 100,
                   raw_score |-> last'.raw_score,
                   location |-> last'.location, length |-> last'.length]}
        /\ parents'[3] = 8 /\ scores'[3] = 100
        /\ raw_scores'[3] = 101
        /\ links_added' = 5 /\ links_rejected' = 0
    ]_vars

\* The two chains followed by the edge (3, 8, 100).
C7_Witness ==
    /\ history = Append(TwoChains, <<3, 8, 100>>)
    /\ last.op = "add_link" /\ last.a = 3 /\ last.b = 8 /\ last.score = 100
    /\ links_processed = 5

\* C9: a well-formed record with query or target outside 0 .. num_nodes-1 is
\* skipped: add_link is not called, no counter changes and no array is
\* indexed at that id.
C9_OutOfRangeSkipped ==
    [][(last'.a \notin Nodes \/ last'.b \notin Nodes) =>
        /\ last'.op = "skip"
        /\ pc' = "idle"
        /\ UNCHANGED <<links_processed, links_added, links_rejected, history>>
    ]_vars

\* C10: get_twilight_nodes returns the nodes v with 0 <= scores[v] < 300,
\* each once, in non-increasing order of score.
C10_Twilight ==
    last.op = "get_twilight_nodes" =>
        LET l == last.list
        IN  /\ Range(l) = {v \in Nodes : scores[v] >= 0 /\ scores[v] < 300}
            /\ Cardinality(Range(l)) = Len(l)
            /\ \A i, j \in 1 .. Len(l) : i < j => scores[l[i]] >= scores[l[j]]

\* Two twilight nodes of different scores returned, the node with the largest
\* id seen among them, while an edge of score 300 was rejected.
C10_Witness ==
    /\ last.op = "get_twilight_nodes"
    /\ Len(last.list) = 2
    /\ scores[last.list[1]] > scores[last.list[2]]
    /\ max_seen_id \in Range(last.list)
    /\ links_rejected = 1

\* The nodes above u through attached nodes only: parents[u] when u is
\* attached, and what is above that.
RECURSIVE Above(_, _)
Above(u, k) ==
    IF scores[u] < 0 \/ k = 0 THEN {}
    ELSE {parents[u]} \cup Above(parents[u], k - 1)

Descendants(v) == {u \in Nodes : u # v /\ v \in Above(u, num_nodes)}

RootCandidates ==
    {v \in Nodes : v <= max_seen_id /\ (scores[v] < 0 \/ parents[v] = v)}

\* C11: find_root returns the only candidate, 0 when there is none, and
\* otherwise the candidate with the most transitive descendants, the lowest
\* id among the best; the count always returns.
C11_FindRoot ==
    last.op = "find_root" =>
        LET r == last.list[1]
            C == RootCandidates
        IN  /\ pc = "idle"
            /\ C = {} => r = 0
            /\ Cardinality(C) = 1 => C = {r}
            /\ Cardinality(C) > 1 =>
                  /\ r \in C
                  /\ \A c \in C :
                        /\ Cardinality(Descendants(c))
                             <= Cardinality(Descendants(r))
                        /\ Cardinality(Descendants(c))
                             = Cardinality(Descendants(r)) => r <= c

\* Two candidates; the one returned is not node 0, the lowest id, because it
\* has a descendant and node 0 has none.
C11_Witness ==
    /\ last.op = "find_root"
    /\ Cardinality(RootCandidates) = 2
    /\ last.list[1] # 0
    /\ Cardinality(Descendants(last.list[1])) = 1
    /\ Descendants(0) = {}

MinInt(x, y) == IF x < y THEN x ELSE y

\* C12: build_children_map returns min(max_seen_id + 1, N) lists; the list
\* of p holds exactly the attached nodes whose parent is p, each attached
\* node is in exactly one list, once, and every list has non-increasing
\* scores.
C12_ChildrenMap ==
    last.op = "build_children_map" =>
        LET children == last.list
        IN  /\ Len(children) = MinInt(max_seen_id + 1, num_nodes)
            /\ \A p \in 1 .. Len(children) :
                  /\ Range(children[p])
                       = {v \in Nodes : scores[v] >= 0 /\ parents[v] = p - 1}
                  /\ \A i, j \in 1 .. Len(children[p]) :
                        i < j => /\ children[p][i] # children[p][j]
                                 /\ scores[children[p][i]]
                                      >= scores[children[p][j]]
            /\ \A v \in Nodes :
                  scores[v] >= 0 =>
                      Cardinality({p \in 1 .. Len(children) :
                                      v \in Range(children[p])}) = 1

\* Node 0 has two children, returned with the larger score first although
\* it has the larger id.
C12_Witness ==
    /\ last.op = "build_children_map"
    /\ Len(last.list) = 3
    /\ last.list[1] = <<2, 1>>
    /\ scores[2] > scores[1]

\* The cell (i, j) of the matrix of the call.
HCell(i, j) == align.H[i * (align.n + 1) + j]

MaxOf(S) == CHOOSE x \in S : \A y \in S : y <= x

Max4(w, x, y, z) == MaxOf({w, x, y, z})

\* The matrix has been filled: the call is past line 99.
Filled == align.at \in {"traceback", "returned"} /\ align.H # <<>>

\* C13: the reported score is the largest cell of the matrix H that is 0 on
\* its first row and column and satisfies the recurrence everywhere else;
\* no cell is negative.
C13_Optimality ==
    Filled =>
        /\ \A i \in 0 .. align.m : HCell(i, 0) = 0
        /\ \A j \in 0 .. align.n : HCell(0, j) = 0
        /\ \A i \in 1 .. align.m, j \in 1 .. align.n :
              HCell(i, j)
                = Max4(0,
                       fadd(HCell(i - 1, j - 1),
                            Flat(align.matrix)[Idx(align.seq_a[i]) * 32
                                                 + Idx(align.seq_b[j])]),
                       fadd(HCell(i - 1, j), align.gap_extend),
                       fadd(HCell(i, j - 1), align.gap_extend))
        /\ \A i \in 0 .. align.m, j \in 0 .. align.n : HCell(i, j) >= 0
        /\ align.out_score.written
        /\ align.out_score.value
             = MaxOf({HCell(i, j) : i \in 0 .. align.m, j \in 0 .. align.n})

\* "ACA" against "aA" with match 2, mismatch -1 and gap -1: the best cell
\* is the last one, reached through a gap, and the score is 3 = 2 - 1 + 2.
C13_Witness ==
    /\ Filled
    /\ align.seq_a = <<65, 67, 65>> /\ align.seq_b = <<97, 65>>
    /\ align.matrix.aa = 2 /\ align.matrix.ac = -1 /\ align.gap_extend = -1
    /\ align.out_score.value = 3
    /\ HCell(3, 2) = 3 /\ HCell(2, 1) = 1

\* The call has returned after filling the matrix.
Returned == align.at = "returned" /\ align.H # <<>>

\* The score delta a column implies: the substitution score of the two
\* letters when both indices are there, the gap score otherwise.
Delta(t) ==
    LET ia == align.out_indices_a[t]
        ib == align.out_indices_b[t]
    IN  IF ia >= 0 /\ ib >= 0
        THEN Flat(align.matrix)[Idx(align.seq_a[ia + 1]) * 32
                                  + Idx(align.seq_b[ib + 1])]
        ELSE align.gap_extend

\* The deltas of the columns t .. out_len - 1 added up from the head of the
\* alignment, which is the last column emitted.
RECURSIVE PathScore(_)
PathScore(t) ==
    IF t >= align.out_len.value THEN 0
    ELSE fadd(PathScore(t + 1), Delta(t))

\* C14: every emitted column has two indices >= 0 or one index >= 0 and one
\* -1; the deltas of the columns add up to the reported score, and the
\* traceback has stopped at a cell whose value is 0.
C14_TracebackConsistent ==
    Returned =>
        /\ align.out_len.written
        /\ \A t \in 0 .. (align.out_len.value - 1) :
              LET ia == align.out_indices_a[t]
                  ib == align.out_indices_b[t]
              IN  /\ ia >= -1 /\ ib >= -1
                  /\ ~(ia = -1 /\ ib = -1)
        /\ PathScore(0) = align.out_score.value
        /\ HCell(align.i, align.j) = 0

\* A path of two matches around a gap in B, under a negative gap score: its
\* three deltas 2, -1, 2 add up to the reported 3, and the walk has stopped
\* on the zero border.
C14_Witness ==
    /\ Returned
    /\ align.gap_extend = -1
    /\ align.out_len.value = 3
    /\ align.out_indices_b[1] = -1 /\ align.out_indices_a[1] = 1
    /\ align.out_indices_a[0] = 2 /\ align.out_indices_b[0] = 1
    /\ align.out_indices_a[2] = 0 /\ align.out_indices_b[2] = 0
    /\ align.out_score.value = 3

\* The three candidates of the cell (i, j) equal its value or not.
DiagonalFits(i, j) ==
    HCell(i, j) = fadd(HCell(i - 1, j - 1),
                       Flat(align.matrix)[Idx(align.seq_a[i]) * 32
                                            + Idx(align.seq_b[j])])

UpFits(i, j) == HCell(i, j) = fadd(HCell(i - 1, j), align.gap_extend)

LeftFits(i, j) == HCell(i, j) = fadd(HCell(i, j - 1), align.gap_extend)

\* C15: a turn of the traceback at a cell (i, j) with H[i][j] > 0 emits the
\* diagonal column whenever the diagonal candidate equals H[i][j], otherwise
\* the up column whenever the up candidate does, and the left column only
\* when neither does.
C15_Precedence ==
    [][(align.at = "traceback" /\ align'.at = "traceback") =>
          LET i == align.i
              j == align.j
              ia == align'.out_indices_a[align.k]
              ib == align'.out_indices_b[align.k]
          IN  /\ HCell(i, j) > 0
              /\ DiagonalFits(i, j) => (ia = i - 1 /\ ib = j - 1)
              /\ (~DiagonalFits(i, j) /\ UpFits(i, j))
                    => (ia = i - 1 /\ ib = -1)
              /\ (ia = -1 /\ ib = j - 1)
                    <=> (~DiagonalFits(i, j) /\ ~UpFits(i, j))
              /\ align'.i = (IF ia >= 0 THEN i - 1 ELSE i)
              /\ align'.j = (IF ib >= 0 THEN j - 1 ELSE j)]_vars

\* The cell the column t was emitted at.
RECURSIVE CellOf(_)
CellOf(t) ==
    IF t = 0 THEN <<align.max_i, align.max_j>>
    ELSE LET before == CellOf(t - 1)
         IN  <<IF align.out_indices_a[t - 1] >= 0 THEN before[1] - 1
               ELSE before[1],
               IF align.out_indices_b[t - 1] >= 0 THEN before[2] - 1
               ELSE before[2]>>

\* A path with a cell where the diagonal and the up candidate fit and the
\* diagonal column was emitted, and a cell where up and left fit, the
\* diagonal does not, and the up column was emitted.
C15_Witness ==
    /\ align.at = "returned" /\ align.H # <<>> /\ align.out_len.written
    /\ \E t \in 0 .. (align.out_len.value - 1) :
          LET cell == CellOf(t)
          IN  /\ DiagonalFits(cell[1], cell[2])
              /\ UpFits(cell[1], cell[2])
              /\ align.out_indices_a[t] = cell[1] - 1
              /\ align.out_indices_b[t] = cell[2] - 1
    /\ \E t \in 0 .. (align.out_len.value - 1) :
          LET cell == CellOf(t)
          IN  /\ ~DiagonalFits(cell[1], cell[2])
              /\ UpFits(cell[1], cell[2])
              /\ LeftFits(cell[1], cell[2])
              /\ align.out_indices_a[t] = cell[1] - 1
              /\ align.out_indices_b[t] = -1

\* The call has returned because the allocation failed.
AllocationFailed == align.at = "returned" /\ align.H = <<>>

\* C16: when the allocation of H fails the score slot holds a negative
\* value, the path length output is 0 and no index buffer entry has been
\* written.
C16_AllocFailureEmptyPath ==
    AllocationFailed =>
        /\ align.out_score.written /\ align.out_score.value < 0
        /\ align.out_len.value = 0
        /\ \A t \in DOMAIN align.out_indices_a :
              /\ align.out_indices_a[t] = Unwritten
              /\ align.out_indices_b[t] = Unwritten

\* The first node of the chain of a that is on the chain of b: the lowest
\* common ancestor, node 0 when a and b share no other node.
FirstShared(a, b) ==
    LET ca == Chain(a, num_nodes)
        cb == Range(Chain(b, num_nodes))
    IN  ca[MinOf({i \in 1 .. Len(ca) : ca[i] \in cb})]

\* The chain of a below the node top.
ChainBelow(a, top) ==
    LET ca == Chain(a, num_nodes)
    IN  SubSeq(ca, 1, MinOf({i \in 1 .. Len(ca) : ca[i] = top}) - 1)

\* C17: in every reachable state and for all a # b, find_meeting_point
\* reports a meeting at the lowest common ancestor of a and b, node 0 when
\* they share none, and the two paths are the chains of a and of b below
\* that node; stamps left by earlier searches change nothing of this.
C17_MeetingPoint ==
    \A a, b \in Nodes :
        a # b =>
            LET w == find_meeting_point(This, a, b)
                lca == FirstShared(a, b)
            IN  /\ w.status = "met"
                /\ w.meeting_node = lca
                /\ w.path_a = ChainBelow(a, lca)
                /\ w.path_b = ChainBelow(b, lca)
                /\ (Range(Chain(a, num_nodes)) \cap Range(Chain(b, num_nodes))
                      = {0}) => w.meeting_node = 0

\* The third search; the call walked from two nodes with a common parent
\* that is not node 0, met there, and was rejected, so that the tree is the
\* one the walk saw; the meeting node still carries the stamp of an earlier
\* search on the other side.
C17_Witness ==
    /\ last.op = "add_link" /\ last.walked /\ last.ret = "false"
    /\ search_id = 3
    /\ last.meeting_node \notin {0, last.a, last.b}
    /\ last.path_a = <<last.a>> /\ last.path_b = <<last.b>>
    /\ find_meeting_point(This, last.b, last.a).meeting_node
         = last.meeting_node
    /\ \/ visited_a_search_ids[last.meeting_node] \in {1, 2}
       \/ visited_b_search_ids[last.meeting_node] \in {1, 2}

\* The ids passed as an endpoint to a call so far.
OfferedIds == UNION {{history[i][1], history[i][2]} : i \in 1 .. Len(history)}

MaxSeenLaw ==
    /\ max_seen_id = MaxOf({0} \cup OfferedIds)
    /\ \A v \in Nodes :
          scores[v] >= 0 => (v <= max_seen_id /\ parents[v] <= max_seen_id)

\* C18: max_seen_id never decreases; it is the largest id passed as an
\* endpoint to any add_link call so far, self-loops and rejected calls
\* included, and 0 before the first call; every attached node and its
\* parent are at most max_seen_id.
C18_MaxSeen ==
    [][max_seen_id' >= max_seen_id /\ MaxSeenLaw /\ MaxSeenLaw']_vars

\* The largest id so far came in with a self-loop and a larger one with a
\* rejected call; an edge accepted after them lies below max_seen_id.
C18_Witness ==
    /\ Len(history) = 3
    /\ history[1][1] = history[1][2] /\ history[1][1] = 2
    /\ history[2] = <<3, 1, -1>>
    /\ last.op = "add_link" /\ last.ret = "true" /\ last.a = 1 /\ last.b = 0
    /\ max_seen_id = 3
    /\ scores[3] < 0 /\ scores[2] < 0

\* C19: between calls no node other than 0 is its own parent, and the entry
\* of node 0 is as the constructor left it: parent 0 and score, raw score,
\* location and length -1.
C19_SelfRootsTransient ==
    /\ \A v \in Nodes : v # 0 => parents[v] # v
    /\ parents[0] = 0
    /\ scores[0] = -1 /\ raw_scores[0] = -1
    /\ locations[0] = -1 /\ lengths[0] = -1

\* Node 0 was an endpoint of the first call, which was accepted, and the
\* last call reversed a link of path_a: reverse_path made path_a[0] = a its
\* own parent and the new edge has attached it to b again.
C19_Witness ==
    /\ Len(history) = 3
    /\ 0 \in {history[1][1], history[1][2]} /\ history[1][1] # history[1][2]
    /\ links_added = 3
    /\ last.op = "add_link" /\ last.ret = "true"
    /\ Len(last.path_a) >= 2
    /\ parents[last.path_a[2]] = last.a
    /\ parents[last.a] = last.b
    /\ last.b # 0

\* A call of add_link(a, b, score, ...) made in the current state returns
\* false, is counted as rejected and stores nothing.
WouldReject(a, b, score) ==
    LET r == add_link_body(This, a, b, score, score, 0, 0)
    IN  /\ r.ret = "false"
        /\ r.t.links_rejected = links_rejected + 1
        /\ r.t.links_added = links_added
        /\ r.t.parents = parents /\ r.t.scores = scores

\* Scores below -1 an edge can be offered with.
LowerScores == {-TwilightLimit, -2}

\* C20: in every reachable state a call with a # b and a negative score
\* returns false, is counted as rejected and stores nothing; every stored
\* score is at least -1, and it is -1 exactly on the nodes that hold no
\* edge.  The score -1, the highest negative one, is tried in every state,
\* the lower ones in the states with fewer than MaxCalls calls behind them.
C20_NegativeNeverAccepted ==
    /\ \A a, b \in Nodes : a # b => WouldReject(a, b, -1)
    /\ links_processed < MaxCalls =>
          \A a, b \in Nodes, score \in LowerScores :
              a # b => WouldReject(a, b, score)
    /\ \A v \in Nodes :
          /\ scores[v] >= -1
          /\ scores[v] = -1 <=> locations[v] = -1

\* An edge of score -1 offered between the two ends of a tree path whose
\* weakest link has score 0: it was rejected.
C20_Witness ==
    /\ last.op = "add_link" /\ last.score = -1 /\ last.a # last.b
    /\ last.ret = "false" /\ last.walked
    /\ links_rejected = 1 /\ links_added = 2
    /\ Len(last.path_a) = 2 /\ last.path_b = <<>>
    /\ scores[last.path_a[1]] = 0
    /\ scores[last.path_a[2]] > 0

\* The edges offered so far in one fixed order, whatever the order they
\* came in: by first endpoint, then second endpoint, then score.
EdgeKey(e) == (e[1] * num_nodes + e[2]) * (TwilightLimit + 1) + e[3]

RECURSIVE InKeyOrder(_)
InKeyOrder(edges) ==
    IF edges = {} THEN <<>>
    ELSE LET first == CHOOSE e \in edges :
                          \A f \in edges : EdgeKey(e) <= EdgeKey(f)
         IN  <<first>> \o InKeyOrder(edges \ {first})

\* The builder after add_link on each edge of the sequence from position i
\* on.
RECURSIVE Ingest(_, _, _)
Ingest(t, edges, i) ==
    IF i > Len(edges) THEN t
    ELSE Ingest(add_link_body(t, edges[i][1], edges[i][2], edges[i][3],
                              edges[i][3] + 1, 1000 + i - 1, 2000 + i - 1).t,
                edges, i + 1)

AttachedOf(t) == {v \in 0 .. (t.num_nodes - 1) : t.scores[v] >= 0}

RECURSIVE WeightOver(_, _)
WeightOver(t, nodes) ==
    IF nodes = {} THEN 0
    ELSE LET v == CHOOSE x \in nodes : TRUE
         IN  t.scores[v] + WeightOver(t, nodes \ {v})

WeightOf(t) == WeightOver(t, AttachedOf(t))

\* The builder that the same edges give when they come in key order.
InOrderBuilder ==
    Ingest(MaxSpanningTree(num_nodes), InKeyOrder(Range(history)), 1)

\* C21: the sum of the stored scores and the number of attached nodes after
\* ingesting a set of edges are those the same set gives in key order, and
\* so the same for every order; parents and links_added may be different.
C21_OrderIndependentWeight ==
    LET in_order == InOrderBuilder
    IN  /\ WeightOf(This) = WeightOf(in_order)
        /\ Cardinality(AttachedOf(This)) = Cardinality(AttachedOf(in_order))

\* Four edges that came in another order than key order: the tree has the
\* same weight and size as in key order, but other parent pointers and
\* another number of accepted calls, an edge having been displaced.
C21_Witness ==
    /\ Len(history) = 4
    /\ history # InKeyOrder(Range(history))
    /\ links_added = 4
    /\ Cardinality(AttachedOf(This)) = 3
    /\ parents # InOrderBuilder.parents
    /\ links_added # InOrderBuilder.links_added
    /\ WeightOf(This) = WeightOf(InOrderBuilder)

\* C22: no write of the traceback falls outside the first m + n entries of
\* the index buffers.  The loop ends, because every turn adds 1 to k and
\* takes at least 1 from i + j, which starts at most at m + n and stays at
\* least 0; so 0 <= k <= m + n, the entries written are those below k, and
\* they hold an index of A from -1 to m - 1 and an index of B from -1 to
\* n - 1; the reported length is k.
C22_BuffersNotOverrun ==
    align.at \in {"entry", "traceback", "returned"} =>
        /\ ~align.overrun
        /\ align.i >= 0 /\ align.j >= 0
        /\ align.k >= 0 /\ align.k <= align.m + align.n
        /\ align.k + align.i + align.j <= align.m + align.n
        /\ \A t \in DOMAIN align.out_indices_a :
              IF t < align.k
              THEN /\ align.out_indices_a[t] \in -1 .. (align.m - 1)
                   /\ align.out_indices_b[t] \in -1 .. (align.n - 1)
              ELSE /\ align.out_indices_a[t] = Unwritten
                   /\ align.out_indices_b[t] = Unwritten
        /\ (align.at = "returned" /\ align.out_len.written)
              => align.out_len.value = align.k

\* The longest path two sequences of three letters can give: five columns,
\* from the last cell to the border, the entry m + n - 1 of the buffers
\* written and the last index of each sequence emitted.
C22_Witness ==
    /\ align.at = "returned" /\ align.out_len.written
    /\ align.m = 3 /\ align.n = 3
    /\ align.out_len.value = 5
    /\ align.out_indices_a[4] # Unwritten
    /\ \E t \in 0 .. 4 : align.out_indices_a[t] = 2
    /\ \E t \in 0 .. 4 : align.out_indices_b[t] = 2
    /\ \E t \in 0 .. 4 : align.out_indices_a[t] = -1
    /\ \E t \in 0 .. 4 : align.out_indices_b[t] = -1

====
